---- MODULE Spec2Model ----
(***************************************************************************)
(* Orbit code-execution engine (final version: queue + judge + Nexus AI    *)
(* diagnosis + metrics).  The model follows the Go source: the POST        *)
(* /submit handler, the five startWorker loops, executePythonCode and      *)
(* callNexusAI, over the Redis store/queue, the temp-jobs directory and    *)
(* the Docker daemon.                                                      *)
(*                                                                         *)
(* Go strings that are only copied are TLA+ strings.  Strings the code     *)
(* searches, trims or concatenates (outputs, expected outputs, error       *)
(* texts) are sequences of lexemes, so that strings.Contains is a search   *)
(* for a lexeme and strings.TrimSpace strips whitespace lexemes at both    *)
(* ends.                                                                   *)
(***************************************************************************)
EXTENDS Naturals, Sequences, FiniteSets, TLC

(* ---- bounds of the model ---- *)
MaxRequests == 2      \* POST /submit requests, each served by its own goroutine
MaxTicks == 2         \* distinct instants the wall clock shows during a run
MaxFaults == 1        \* environment faults: expired keys, Docker and Nexus failures
MaxLen == 3           \* lexemes in an output or expected output given to the judge

(* ---- program constants ---- *)
concurrency == 5      \* worker goroutines started by main

\* the wall clock, in nanoseconds since the epoch, when the server starts
StartNanos == 1000000000
NanosPerSecond == 1000000000
Instants == StartNanos..(StartNanos + MaxTicks - 1)

Requests == 1..MaxRequests
Workers == 1..concurrency

VARIABLES
  clock,          \* the wall clock: the latest instant that has been read
  store,          \* Redis keys "job:<id>" -> marshalled Job
  queue,          \* Redis list "job_queue", head = left end
  hpc, hjob,      \* per request: position in the /submit handler, its Job
  pc,             \* per worker: position in the startWorker loop
  jobID, job,     \* per worker: locals jobID and job
  fileName,       \* per worker: fileName local of executePythonCode
  timeoutWarning, \* per worker: timeoutWarning local of executePythonCode
  err,            \* per worker: the error executePythonCode returned, << >> for nil
  files,          \* temp-jobs directory: file name -> content
  containers,     \* Docker daemon: container ID -> state
  created,        \* number of containers the daemon has created so far
  jobsProcessed,  \* prometheus counter orbit_jobs_processed_total
  aiCalls,        \* prometheus counter orbit_ai_calls_total
  faults          \* number of environment faults so far

vars == <<clock, store, queue, hpc, hjob, pc, jobID, job, fileName,
          timeoutWarning, err, files, containers, created, jobsProcessed, aiCalls,
          faults>>

handlerVars == <<hpc, hjob>>
runVars == <<fileName, timeoutWarning, err>>
dockerVars == <<files, containers, created>>
metricVars == <<jobsProcessed, aiCalls>>

(* ---- strings ---- *)
Whitespace == {" ", "\n", "\t"}

TracebackHeader == "Traceback (most recent call last)"
ErrorToken == "Error:"
\* "\n" followed by the warning sign and the words Time Limit Exceeded
TimeLimitExceeded == "Time Limit Exceeded"
timeoutWarningText == <<"\n", TimeLimitExceeded>>

\* strings.Contains(s, tok) for a lexeme tok
Contains(s, tok) == \E i \in 1..Len(s) : s[i] = tok

RECURSIVE TrimLeft(_)
TrimLeft(s) ==
  IF s # <<>> /\ Head(s) \in Whitespace THEN TrimLeft(Tail(s)) ELSE s

RECURSIVE TrimRight(_)
TrimRight(s) ==
  IF s # <<>> /\ s[Len(s)] \in Whitespace
    THEN TrimRight(SubSeq(s, 1, Len(s) - 1))
    ELSE s

\* TrimSpace that strips the left end only
TrimSpaceLeftOnly(s) == TrimLeft(s)

\* strings.TrimSpace
TrimSpace(s) == TrimRight(TrimLeft(s))

(* ---- the Job record ---- *)
\* zero value of the Go struct: what json.Unmarshal leaves on an empty input
ZeroJob ==
  [id |-> "", code |-> "", expected_output |-> <<>>, actual_output |-> <<>>,
   verdict |-> "", ai_diagnosis |-> <<>>, status |-> "", created_at |-> 0]

\* time.Now() at or after the latest reading: the wall clock does not run
\* backwards, and two readings may show the same instant
Now(t) == t \in Instants /\ t >= clock

\* Time.UnixNano and Time.Unix of the instant t
UnixNano(t) == t
Unix(t) == t \div NanosPerSecond

\* fmt.Sprintf("%d", time.Now().UnixNano())
FormatID(t) == ToString(UnixNano(t))

\* the Redis key of a job
JobKey(id) == "job:" \o id

\* rdb.Get(...).Result(): the stored value, or the empty string (with the
\* redis.Nil error) when the key is absent.  A reply is a sequence holding
\* the stored document, empty for the empty string.
Get(st, key) == IF key \in DOMAIN st THEN <<st[key]>> ELSE << >>

\* json.Unmarshal into a fresh Job: a failed parse leaves the zero value
Unmarshal(val) == IF val = << >> THEN ZeroJob ELSE val[1]

\* rdb.Set(key, value, 1h): writes or replaces the key
Set(st, key, val) ==
  [k \in DOMAIN st \cup {key} |-> IF k = key THEN val ELSE st[k]]

\* updateJob: the record goes under the key built from job.ID
updateJob(st, j) == Set(st, JobKey(j.id), j)

\* rdb.LPush: push on the left end
LPush(q, id) == <<id>> \o q

(* ---- request bodies the clients send ---- *)
\* the programs, with what the interpreter prints for each
Behaviour(code) ==
  CASE code = "print(5)" ->
         [stdout |-> <<"5", "\n">>, stderr |-> <<>>, halts |-> TRUE]
    [] code = "1/0" ->
         [stdout |-> <<>>,
          stderr |-> <<TracebackHeader, "\n", "ZeroDivision", ErrorToken,
                       " ", "division by zero", "\n">>,
          halts |-> TRUE]
    [] code = "print(5);sleep(10)" ->
         [stdout |-> <<"5", "\n">>, stderr |-> <<>>, halts |-> FALSE]
    [] code = "print(5);warn()" ->
         [stdout |-> <<"5", "\n">>, stderr |-> <<"warning", "\n">>,
          halts |-> TRUE]
    [] code = "warn();sleep(10)" ->
         [stdout |-> <<>>, stderr |-> <<"warning", "\n">>, halts |-> FALSE]
    [] code = "print(5);warn();sleep(10)" ->
         [stdout |-> <<"5", "\n">>, stderr |-> <<"warning", "\n">>,
          halts |-> FALSE]
    [] OTHER ->
         [stdout |-> <<>>, stderr |-> <<>>, halts |-> TRUE]

\* the programs Behaviour tells apart; "pass" prints nothing
Programs ==
  {"print(5)", "1/0", "print(5);sleep(10)", "print(5);warn()",
   "warn();sleep(10)", "print(5);warn();sleep(10)", "pass"}

Bodies ==
  { [code |-> "print(5)", expected_output |-> <<" ", "5">>],
    [code |-> "1/0", expected_output |-> <<>>],
    [code |-> "print(5);sleep(10)",
     expected_output |-> <<"5", "\n", "\n", TimeLimitExceeded>>] }

(* ---- initial state: Redis empty, workers blocked in BLPop ---- *)
Init ==
  /\ clock = StartNanos
  /\ store = << >>
  /\ queue = << >>
  /\ hpc = [r \in Requests |-> "bind"]
  /\ hjob = [r \in Requests |-> ZeroJob]
  /\ pc = [w \in Workers |-> "pop"]
  /\ jobID = [w \in Workers |-> ""]
  /\ job = [w \in Workers |-> ZeroJob]
  /\ fileName = [w \in Workers |-> ""]
  /\ timeoutWarning = [w \in Workers |-> << >>]
  /\ err = [w \in Workers |-> << >>]
  /\ files = << >>
  /\ containers = << >>
  /\ created = 0
  /\ jobsProcessed = 0
  /\ aiCalls = 0
  /\ faults = 0

(* ---- POST /submit ---- *)
\* lines 80-96: bind the body, read the clock, build the Job.  The requests
\* are numbered in their order of arrival.  CreatedAt is read from the same
\* instant as the ID.
SubmitBuild(r) ==
  /\ hpc[r] = "bind"
  /\ \A q \in Requests : q < r => hpc[q] # "bind"
  /\ \E body \in Bodies, t \in Instants :
       /\ Now(t)
       /\ clock' = t
       /\ hjob' = [hjob EXCEPT ![r] =
                     [ZeroJob EXCEPT !.id = FormatID(t),
                                     !.code = body.code,
                                     !.expected_output = body.expected_output,
                                     !.status = "pending",
                                     !.created_at = Unix(t)]]
  /\ hpc' = [hpc EXCEPT ![r] = "set"]
  /\ UNCHANGED <<store, queue, pc, jobID, job, runVars, dockerVars,
                 metricVars, faults>>

\* lines 84-87: the body is not valid JSON; 400 and nothing else
SubmitReject(r) ==
  /\ hpc[r] = "bind"
  /\ \A q \in Requests : q < r => hpc[q] # "bind"
  /\ hpc' = [hpc EXCEPT ![r] = "rejected"]
  /\ UNCHANGED <<clock, store, queue, hjob, pc, jobID, job, runVars,
                 dockerVars, metricVars, faults>>

\* lines 98-99: rdb.Set
SubmitSet(r) ==
  /\ hpc[r] = "set"
  /\ store' = Set(store, JobKey(hjob[r].id), hjob[r])
  /\ hpc' = [hpc EXCEPT ![r] = "push"]
  /\ UNCHANGED <<clock, queue, hjob, pc, jobID, job, runVars, dockerVars,
                 metricVars, faults>>

\* lines 100-102: rdb.LPush, then the 202 response
SubmitPush(r) ==
  /\ hpc[r] = "push"
  /\ queue' = LPush(queue, hjob[r].id)
  /\ hpc' = [hpc EXCEPT ![r] = "done"]
  /\ UNCHANGED <<clock, store, hjob, pc, jobID, job, runVars, dockerVars,
                 metricVars, faults>>

(* ---- the environment ---- *)
\* an environment fault happens: one more of the MaxFaults of a run
Fault ==
  /\ faults < MaxFaults
  /\ faults' = faults + 1

\* Redis expiry: the one-hour TTL of a key elapses
Expire(key) ==
  /\ key \in DOMAIN store
  /\ Fault
  /\ store' = [k \in DOMAIN store \ {key} |-> store[k]]
  /\ UNCHANGED <<clock, queue, handlerVars, pc, jobID, job, runVars,
                 dockerVars, metricVars>>

(* ---- executePythonCode: pure parts ---- *)
\* fmt.Sprintf("job_%d.py", time.Now().UnixNano())
FormatFileName(t) == "job_" \o ToString(UnixNano(t)) \o ".py"

\* os.WriteFile: creates or overwrites
WriteFile(fs, name, content) ==
  [n \in DOMAIN fs \cup {name} |-> IF n = name THEN content ELSE fs[n]]

\* os.Remove left out: the file stays
RemoveKeep(fs, name) == fs

\* os.Remove (deferred): unlinks the name if it is there
Remove(fs, name) == [n \in DOMAIN fs \ {name} |-> fs[n]]

\* cli.ContainerRemove with ContainerRemoveOptions{} (Force unset): the
\* daemon refuses to remove a running container
ContainerRemove(cs, id) ==
  IF cs[id] = "running" THEN cs ELSE [c \in DOMAIN cs \ {id} |-> cs[c]]

\* finalOutput that keeps only the warning when the deadline fired
finalOutputDiscard(stdout, stderr, tw) ==
  IF tw # << >>
    THEN tw
    ELSE stdout \o (IF Len(stderr) > 0 THEN <<"\n">> \o stderr ELSE << >>)

\* lines 244-248: stdout, then "\n" and stderr if any, then the warning
finalOutput(stdout, stderr, tw) ==
  stdout \o (IF Len(stderr) > 0 THEN <<"\n">> \o stderr ELSE << >>) \o tw

\* what ContainerLogs and StdCopy deliver for a program
Logs(code, tw) ==
  finalOutput(Behaviour(code).stdout, Behaviour(code).stderr, tw)

\* the three fmt.Errorf texts
clientError == <<"client error: ", "cannot connect">>
createError == <<"create error: ", "no such image">>
startError == <<"start error: ", "mount failed">>

(* ---- startWorker: pure parts ---- *)
\* lines 140-146; the nil error is the empty text
isRuntimeError(out, e) ==
  \/ e # << >>
  \/ Contains(out, TracebackHeader)
  \/ Contains(out, ErrorToken)

\* Judge without line 143: the error text is not copied to ActualOutput
JudgeNoErrorText(j, out, e) ==
  IF isRuntimeError(out, e)
    THEN [j EXCEPT !.actual_output = out,
                   !.status = "failed",
                   !.verdict = "Runtime Error"]
    ELSE [j EXCEPT !.actual_output = out,
                   !.status = "completed",
                   !.verdict =
                     IF TrimSpace(out) = TrimSpace(j.expected_output)
                       THEN "Passed" ELSE "Failed"]

\* Judge with line 149 setting "completed" instead of "failed"
JudgeCompleted(j, out, e) ==
  LET actual == IF e # << >> THEN e ELSE out
  IN IF isRuntimeError(out, e)
       THEN [j EXCEPT !.actual_output = actual,
                      !.status = "completed",
                      !.verdict = "Runtime Error"]
       ELSE [j EXCEPT !.actual_output = actual,
                      !.status = "completed",
                      !.verdict =
                        IF TrimSpace(actual) = TrimSpace(j.expected_output)
                          THEN "Passed" ELSE "Failed"]

\* Judge with the comparison of line 158 made before the crash detection
JudgeCompareFirst(j, out, e) ==
  LET actual == IF e # << >> THEN e ELSE out
  IN IF TrimSpace(actual) = TrimSpace(j.expected_output)
       THEN [j EXCEPT !.actual_output = actual,
                      !.status = "completed",
                      !.verdict = "Passed"]
       ELSE IF isRuntimeError(out, e)
         THEN [j EXCEPT !.actual_output = actual,
                        !.status = "failed",
                        !.verdict = "Runtime Error"]
         ELSE [j EXCEPT !.actual_output = actual,
                        !.status = "completed",
                        !.verdict = "Failed"]

\* lines 138-163 without the call of callNexusAI: the job after judging
Judge(j, out, e) ==
  LET actual == IF e # << >> THEN e ELSE out
  IN IF isRuntimeError(out, e)
       THEN [j EXCEPT !.actual_output = actual,
                      !.status = "failed",
                      !.verdict = "Runtime Error"]
       ELSE [j EXCEPT !.actual_output = actual,
                      !.status = "completed",
                      !.verdict =
                        IF TrimSpace(actual) = TrimSpace(j.expected_output)
                          THEN "Passed" ELSE "Failed"]

\* AfterJudge with a retry: a failed run is started again
AfterJudgeRetry(out, e) ==
  IF e # << >> THEN "run"
  ELSE IF isRuntimeError(out, e) THEN "nexus" ELSE "persist"

\* where the loop goes after judging: line 153 or line 165
AfterJudge(out, e) == IF isRuntimeError(out, e) THEN "nexus" ELSE "persist"

(* ---- startWorker ---- *)
\* lines 124-129: BLPop takes the left end; an error retries the pop.  Redis
\* hands the element to one blocked client; the blocked workers run the
\* same code with dead locals, so the lowest-numbered one receives it.
Pop(w) ==
  /\ pc[w] = "pop"
  /\ \A v \in Workers : v < w => pc[v] # "pop"
  /\ queue # << >>
  /\ jobID' = [jobID EXCEPT ![w] = Head(queue)]
  /\ queue' = Tail(queue)
  /\ pc' = [pc EXCEPT ![w] = "get"]
  /\ UNCHANGED <<clock, store, handlerVars, job, runVars, dockerVars,
                 metricVars, faults>>

\* lines 130-134: Get (error ignored), Unmarshal, job.Status = "processing"
Load(w) ==
  /\ pc[w] = "get"
  /\ job' = [job EXCEPT ![w] =
               [Unmarshal(Get(store, JobKey(jobID[w])))
                  EXCEPT !.status = "processing"]]
  /\ pc' = [pc EXCEPT ![w] = "mark"]
  /\ UNCHANGED <<clock, store, queue, handlerVars, jobID, runVars, dockerVars,
                 metricVars, faults>>

\* line 135: updateJob(job)
MarkProcessing(w) ==
  /\ pc[w] = "mark"
  /\ store' = updateJob(store, job[w])
  /\ pc' = [pc EXCEPT ![w] = "run"]
  /\ UNCHANGED <<clock, queue, handlerVars, jobID, job, runVars, dockerVars,
                 metricVars, faults>>

(* ---- executePythonCode, called at line 137 ---- *)
\* lines 195-203: name the file after the clock, write it, defer its removal
RunWriteFile(w) ==
  /\ pc[w] = "run"
  /\ \E t \in Instants :
       /\ Now(t)
       /\ clock' = t
       /\ fileName' = [fileName EXCEPT ![w] = FormatFileName(t)]
       /\ files' = WriteFile(files, FormatFileName(t), job[w].code)
  /\ pc' = [pc EXCEPT ![w] = "docker"]
  /\ UNCHANGED <<store, queue, handlerVars, jobID, job, timeoutWarning, err,
                 containers, created,
                 metricVars, faults>>

\* an error return of executePythonCode with error text e: the deferred
\* os.Remove runs, then lines 138-151 of the caller
ReturnError(w, e) ==
  /\ files' = Remove(files, fileName[w])
  /\ err' = [err EXCEPT ![w] = e]
  /\ job' = [job EXCEPT ![w] = Judge(job[w], << >>, e)]
  /\ pc' = [pc EXCEPT ![w] = AfterJudge(<< >>, e)]

\* lines 205-208: the Docker client cannot be built
RunClientError(w) ==
  /\ pc[w] = "docker"
  /\ Fault
  /\ ReturnError(w, clientError)
  /\ UNCHANGED <<clock, store, queue, handlerVars, jobID, fileName,
                 timeoutWarning,
                 containers, created, metricVars>>

\* lines 210-222: ContainerCreate fails
RunCreateError(w) ==
  /\ pc[w] = "docker"
  /\ Fault
  /\ ReturnError(w, createError)
  /\ UNCHANGED <<clock, store, queue, handlerVars, jobID, fileName,
                 timeoutWarning,
                 containers, created, metricVars>>

\* cli.ContainerCreate: the daemon makes container number created + 1
ContainerCreate(cs, id) == [c \in DOMAIN cs \cup {id} |-> IF c = id THEN "created" ELSE cs[c]]

\* lines 210-226: the container is created, ContainerStart fails
RunStartError(w) ==
  /\ pc[w] = "docker"
  /\ Fault
  /\ created' = created + 1
  /\ containers' = ContainerCreate(containers, created + 1)
  /\ ReturnError(w, startError)
  /\ UNCHANGED <<clock, store, queue, handlerVars, jobID, fileName,
                 timeoutWarning,
                 metricVars>>

\* lines 205-252 when client, create and start succeed and the select at
\* 230-236 leaves the container in state cstate with warning text tw:
\* logs, ContainerRemove, return, the deferred os.Remove, then lines
\* 138-163 of the caller
RunToEnd(w, cstate, tw) ==
  LET out == Logs(job[w].code, tw)
      id == created + 1
  IN /\ created' = id
     /\ containers' =
          ContainerRemove(
            [ContainerCreate(containers, id) EXCEPT ![id] = cstate], id)
     /\ files' = Remove(files, fileName[w])
     /\ err' = [err EXCEPT ![w] = << >>]
     /\ job' = [job EXCEPT ![w] = Judge(job[w], out, << >>)]
     /\ pc' = [pc EXCEPT ![w] = AfterJudge(out, << >>)]

\* line 231: the container stopped before the deadline
RunExit(w) ==
  /\ pc[w] = "docker"
  /\ Behaviour(job[w].code).halts
  /\ RunToEnd(w, "exited", << >>)
  /\ UNCHANGED <<clock, store, queue, handlerVars, jobID, fileName,
                 timeoutWarning,
                 metricVars, faults>>

\* line 232: ContainerWait reports an error while the container still runs
RunWaitError(w) ==
  /\ pc[w] = "docker"
  /\ Fault
  /\ RunToEnd(w, "running", << >>)
  /\ UNCHANGED <<clock, store, queue, handlerVars, jobID, fileName,
                 timeoutWarning,
                 metricVars>>

\* lines 233-235: the 5 s timer fires first; SIGKILL, timeoutWarning set
RunTimeout(w) ==
  /\ pc[w] = "docker"
  /\ ~Behaviour(job[w].code).halts
  /\ timeoutWarning' = [timeoutWarning EXCEPT ![w] = timeoutWarningText]
  /\ RunToEnd(w, "exited", timeoutWarningText)
  /\ UNCHANGED <<clock, store, queue, handlerVars, jobID, fileName,
                 metricVars, faults>>

(* ---- callNexusAI, called at line 153, and aiCalls.Inc() ---- *)
nexusUnavailable == <<"Nexus AI Unavailable: ", "connection refused">>

\* callNexusAI returns text; lines 153-154 store it and count the call
NexusReturn(w, text) ==
  /\ pc[w] = "nexus"
  /\ job' = [job EXCEPT ![w].ai_diagnosis = text]
  /\ aiCalls' = aiCalls + 1
  /\ pc' = [pc EXCEPT ![w] = "persist"]
  /\ UNCHANGED <<clock, store, queue, handlerVars, jobID, runVars, dockerVars,
                 jobsProcessed>>

\* lines 181-184: http.Post fails
NexusFail(w) ==
  /\ Fault
  /\ NexusReturn(w, nexusUnavailable)

\* lines 187-191: a response with the analysis arrives
NexusReply(w) ==
  /\ NexusReturn(w, <<"analysis">>)
  /\ UNCHANGED faults

\* lines 187-191: the body is malformed or lacks the key; the map lookup
\* result["analysis"] yields ""
NexusMalformed(w) ==
  /\ Fault
  /\ NexusReturn(w, << >>)

\* line 181: http.Post uses http.DefaultClient, which has no timeout; a
\* collaborator that accepts the connection and never answers blocks the
\* call for ever.  The silence of the collaborator is independent of the
\* counted faults: it can meet a failure of the runner in the same job.
NexusNoAnswer(w) ==
  /\ pc[w] = "nexus"
  /\ pc' = [pc EXCEPT ![w] = "blocked"]
  /\ UNCHANGED <<clock, store, queue, handlerVars, jobID, job, runVars,
                 dockerVars, metricVars, faults>>

(* ---- startWorker, the end of the iteration ---- *)
\* line 165: updateJob(job)
Persist(w) ==
  /\ pc[w] = "persist"
  /\ store' = updateJob(store, job[w])
  /\ pc' = [pc EXCEPT ![w] = "inc"]
  /\ UNCHANGED <<clock, queue, handlerVars, jobID, job, runVars, dockerVars,
                 metricVars, faults>>

\* IncProcessed with the increment lost
IncProcessedLost(w) ==
  /\ pc[w] = "inc"
  /\ pc' = [pc EXCEPT ![w] = "pop"]
  /\ jobID' = [jobID EXCEPT ![w] = ""]
  /\ job' = [job EXCEPT ![w] = ZeroJob]
  /\ fileName' = [fileName EXCEPT ![w] = ""]
  /\ timeoutWarning' = [timeoutWarning EXCEPT ![w] = << >>]
  /\ err' = [err EXCEPT ![w] = << >>]
  /\ UNCHANGED <<clock, store, queue, handlerVars, dockerVars, metricVars,
                 faults>>

\* lines 166-168: jobsProcessed.Inc(), then the next iteration with fresh
\* locals
IncProcessed(w) ==
  /\ pc[w] = "inc"
  /\ jobsProcessed' = jobsProcessed + 1
  /\ pc' = [pc EXCEPT ![w] = "pop"]
  /\ jobID' = [jobID EXCEPT ![w] = ""]
  /\ job' = [job EXCEPT ![w] = ZeroJob]
  /\ fileName' = [fileName EXCEPT ![w] = ""]
  /\ timeoutWarning' = [timeoutWarning EXCEPT ![w] = << >>]
  /\ err' = [err EXCEPT ![w] = << >>]
  /\ UNCHANGED <<clock, store, queue, handlerVars, dockerVars, aiCalls,
                 faults>>

WorkerStep(w) ==
  \/ Pop(w)
  \/ Load(w)
  \/ MarkProcessing(w)
  \/ RunWriteFile(w)
  \/ RunClientError(w)
  \/ RunCreateError(w)
  \/ RunStartError(w)
  \/ RunExit(w)
  \/ RunWaitError(w)
  \/ RunTimeout(w)
  \/ NexusFail(w)
  \/ NexusReply(w)
  \/ NexusMalformed(w)
  \/ NexusNoAnswer(w)
  \/ Persist(w)
  \/ IncProcessed(w)

Next ==
  \/ \E r \in Requests : SubmitBuild(r)
  \/ \E r \in Requests : SubmitReject(r)
  \/ \E r \in Requests : SubmitSet(r)
  \/ \E r \in Requests : SubmitPush(r)
  \/ \E key \in DOMAIN store : Expire(key)
  \/ \E w \in Workers : WorkerStep(w)

Spec == Init /\ [][Next]_vars

\* The Go scheduler runs every runnable goroutine: a worker that can take a
\* step of its loop eventually takes one.  Requests, expiry and the Docker
\* and Nexus outcomes are the environment's and carry no fairness.
FairSpec == Spec /\ \A w \in Workers : WF_vars(WorkerStep(w))

(***************************************************************************)
(* The judge alone: lines 138-163 of startWorker applied by worker 1 to    *)
(* every output, expected output and error of the bounded sets below.      *)
(***************************************************************************)
OutLexemes == {" ", "a", "A", ErrorToken, TracebackHeader}
ExpLexemes == {" ", "a", ErrorToken}

\* the texts of at most MaxLen lexemes
TextsOver(L) == UNION {[1..n -> L] : n \in 0..MaxLen}

JudgeInit ==
  /\ clock = StartNanos
  /\ store = << >>
  /\ queue = << >>
  /\ hpc = [r \in Requests |-> "bind"]
  /\ hjob = [r \in Requests |-> ZeroJob]
  /\ pc = [w \in Workers |-> IF w = 1 THEN "judge" ELSE "pop"]
  /\ jobID = [w \in Workers |-> ""]
  /\ \E out \in TextsOver(OutLexemes), exp \in TextsOver(ExpLexemes) :
       job = [w \in Workers |->
                IF w = 1
                  THEN [ZeroJob EXCEPT !.expected_output = exp,
                                       !.actual_output = out,
                                       !.status = "processing"]
                  ELSE ZeroJob]
  /\ fileName = [w \in Workers |-> ""]
  /\ timeoutWarning = [w \in Workers |-> << >>]
  /\ \E e \in {<< >>, startError} :
       err = [w \in Workers |-> IF w = 1 THEN e ELSE << >>]
  /\ files = << >>
  /\ containers = << >>
  /\ created = 0
  /\ jobsProcessed = 0
  /\ aiCalls = 0
  /\ faults = 0

\* line 138 has put the output in job.ActualOutput; lines 140-163 follow
JudgeApply(w) ==
  /\ pc[w] = "judge"
  /\ job' = [job EXCEPT ![w] = Judge(job[w], job[w].actual_output, err[w])]
  /\ pc' = [pc EXCEPT ![w] = "judged"]
  /\ UNCHANGED <<clock, store, queue, handlerVars, jobID, runVars, dockerVars,
                 metricVars, faults>>

JudgeNext == \E w \in Workers : JudgeApply(w)

JudgeSpec == JudgeInit /\ [][JudgeNext]_vars

(***************************************************************************)
(* The runner alone: executePythonCode called at line 137 by worker 1 with *)
(* every program of Programs, the Docker client, create and start          *)
(* succeeding.                                                             *)
(***************************************************************************)
RunInit ==
  /\ clock = StartNanos
  /\ store = << >>
  /\ queue = << >>
  /\ hpc = [r \in Requests |-> "bind"]
  /\ hjob = [r \in Requests |-> ZeroJob]
  /\ pc = [w \in Workers |-> IF w = 1 THEN "run" ELSE "pop"]
  /\ jobID = [w \in Workers |-> ""]
  /\ \E code \in Programs, exp \in TextsOver(ExpLexemes) :
       job = [w \in Workers |->
                IF w = 1
                  THEN [ZeroJob EXCEPT !.code = code,
                                       !.expected_output = exp,
                                       !.status = "processing"]
                  ELSE ZeroJob]
  /\ fileName = [w \in Workers |-> ""]
  /\ timeoutWarning = [w \in Workers |-> << >>]
  /\ err = [w \in Workers |-> << >>]
  /\ files = << >>
  /\ containers = << >>
  /\ created = 0
  /\ jobsProcessed = 0
  /\ aiCalls = 0
  /\ faults = 0

RunNext ==
  \E w \in Workers :
    \/ RunWriteFile(w)
    \/ RunExit(w)
    \/ RunWaitError(w)
    \/ RunTimeout(w)

RunSpec == RunInit /\ [][RunNext]_vars

(***************************************************************************)
(* Properties                                                              *)
(***************************************************************************)
\* the requests that got a job ID
Accepted == {r \in Requests : hpc[r] \in {"set", "push", "done"}}

\* the requests whose record has been written to the store
Submitted == {r \in Requests : hpc[r] \in {"push", "done"}}
SubmittedKeys == {JobKey(hjob[r].id) : r \in Submitted}

Rank(status) ==
  CASE status = "pending" -> 1
    [] status = "processing" -> 2
    [] status \in {"completed", "failed"} -> 3
    [] OTHER -> 0

\* worker w holds a popped ID and has not yet written its terminal record
Processing(w) ==
  pc[w] \in {"get", "mark", "run", "docker", "nexus", "blocked", "persist"}

\* worker w is inside executePythonCode, after it wrote its temp file
InRun(w) == pc[w] = "docker"

\* worker w has returned from executePythonCode in this iteration
Returned(w) == pc[w] \in {"nexus", "blocked", "persist", "inc"}

\* C1: the status stored under the ID of a submitted job never moves to an
\* earlier stage of pending -> processing -> {completed, failed}, and a
\* terminal status is never replaced by another status.
C1_StatusMonotonic ==
  [][\A k \in DOMAIN store \cap DOMAIN store' :
       k \in SubmittedKeys =>
         /\ Rank(store'[k].status) >= Rank(store[k].status)
         /\ Rank(store[k].status) = 3 => store'[k].status = store[k].status]_vars

C3_TimeoutIsRuntimeError ==
  \A w \in Workers :
    (pc[w] = "persist" /\ timeoutWarning[w] # << >>) =>
      /\ Contains(job[w].actual_output, TimeLimitExceeded)
      /\ job[w].verdict = "Runtime Error"

\* C4: a worker that finds no record under the popped ID goes back to the
\* blocking pop and writes nothing.
C4_AbandonMissingRecord ==
  [][\A w \in Workers :
       (pc[w] = "get" /\ JobKey(jobID[w]) \notin DOMAIN store /\ pc'[w] # "get")
         => (pc'[w] = "pop" /\ store' = store)]_vars

\* C5: no two workers are between the pop and the terminal write of the
\* same job ID.
C5_OneWorkerPerJob ==
  \A v, w \in Workers :
    (v # w /\ Processing(v) /\ Processing(w)) => jobID[v] # jobID[w]

\* C6: no container the runner created exists once its run has returned.
C6_ContainersRemoved == DOMAIN containers = {}

\* C7: every temp file on disk belongs to a run that has not returned yet,
\* so with no run in progress the temp-jobs directory is empty.
C7_TempFilesRemoved ==
  \A n \in DOMAIN files : \E w \in Workers : InRun(w) /\ fileName[w] = n

\* a run has returned after writing its temp file, no run is in progress
\* and the directory is empty
C7_Witness ==
  /\ \E w \in Workers : Returned(w) /\ fileName[w] # ""
  /\ \A w \in Workers : ~InRun(w)
  /\ DOMAIN files = {}

\* C8: two runs that overlap in time use different temp file names.
C8_DistinctFileNames ==
  \A v, w \in Workers :
    (v # w /\ InRun(v) /\ InRun(w)) => fileName[v] # fileName[w]

\* C9: two accepted submissions never get the same job ID.
C9_UniqueJobIDs ==
  \A q, r \in Requests :
    (q # r /\ q \in Accepted /\ r \in Accepted) => hjob[q].id # hjob[r].id

\* C10: under fair scheduling a worker that popped a job ID eventually
\* writes the terminal record and returns to the blocking pop.
C10_PoppedJobTerminates ==
  \A w \in Workers : (pc[w] = "get") ~> (pc[w] = "pop")

\* C11: every terminal record with verdict Runtime Error carries a
\* non-empty ai_diagnosis, whatever the diagnosis service answered.
C11_DiagnosisNeverEmpty ==
  \A w \in Workers :
    (pc[w] = "persist" /\ job[w].verdict = "Runtime Error")
      => job[w].ai_diagnosis # << >>

\* C12: after the runner returned an error the worker persists a terminal
\* record with status failed and actual_output equal to the error text, and
\* goes on to the end of the iteration.
C12_RunErrorPersistsFailed ==
  \A w \in Workers :
    (pc[w] = "nexus" /\ err[w] # << >>)
      ~> (pc[w] = "inc" /\ job[w].status = "failed"
                        /\ job[w].actual_output = err[w])

\* C13: every record in the store with status failed, and every record a
\* worker is about to persist with status failed, has a non-empty
\* actual_output.
C13_FailedHasOutput ==
  /\ \A k \in DOMAIN store :
       store[k].status = "failed" => store[k].actual_output # << >>
  /\ \A w \in Workers :
       (pc[w] \in {"nexus", "blocked", "persist"} /\ job[w].status = "failed")
         => job[w].actual_output # << >>

\* the store holds a failed record written after the runner returned an
\* error, its actual_output being the error text
C13_Witness ==
  \E k \in DOMAIN store :
    /\ store[k].status = "failed"
    /\ store[k].actual_output \in {clientError, createError, startError}

\* the order of the positions of one iteration of the worker loop
Stage(p) ==
  CASE p = "pop" -> 0
    [] p = "get" -> 1
    [] p = "mark" -> 2
    [] p = "run" -> 3
    [] p = "docker" -> 4
    [] p = "nexus" -> 5
    [] p = "blocked" -> 6
    [] p = "persist" -> 6
    [] p = "inc" -> 7

\* C14: between two pops a worker only moves forward through its
\* iteration, so it enters the runner at most once per popped ID, also
\* after a run error or a timeout; and no step of a worker puts an ID on
\* the queue.
C14_AtMostOnce ==
  [][\A w \in Workers :
       pc'[w] # pc[w] =>
         /\ Stage(pc'[w]) > Stage(pc[w]) \/ (pc[w] = "inc" /\ pc'[w] = "pop")
         /\ queue' = queue \/ (pc[w] = "pop" /\ queue' = Tail(queue))]_vars

\* a worker has finished the iteration of a run that returned an error and
\* its job ID is not on the queue
C14_Witness ==
  \E w \in Workers :
    /\ pc[w] = "inc"
    /\ err[w] # << >>
    /\ \A i \in 1..Len(queue) : queue[i] # jobID[w]

\* s[i..j] is s without its leading and trailing whitespace: everything
\* outside i..j is whitespace and the part is empty or has no whitespace at
\* either end
IsCore(s, i, j) ==
  /\ \A k \in 1..Len(s) : (k < i \/ k > j) => s[k] \in Whitespace
  /\ i <= j => (s[i] \notin Whitespace /\ s[j] \notin Whitespace)
  /\ i > j => i = j + 1

\* a and b are equal once leading and trailing whitespace is stripped;
\* nothing else is normalised
EqualAfterStrip(a, b) ==
  \E i \in 1..(Len(a) + 1), j \in 0..Len(a),
     k \in 1..(Len(b) + 1), l \in 0..Len(b) :
    /\ IsCore(a, i, j)
    /\ IsCore(b, k, l)
    /\ SubSeq(a, i, j) = SubSeq(b, k, l)

\* the judge has been applied to an output without crash marker of a run
\* that returned no error
JudgedClean(w) ==
  /\ pc[w] = "judged"
  /\ err[w] = << >>
  /\ ~Contains(job[w].actual_output, TracebackHeader)
  /\ ~Contains(job[w].actual_output, ErrorToken)

\* C15: without run error and crash marker the verdict is Passed exactly
\* when output and expected output are equal after stripping leading and
\* trailing whitespace only, and Failed otherwise.
C15_TrimEquality ==
  \A w \in Workers :
    JudgedClean(w) =>
      /\ job[w].verdict = "Passed"
           <=> EqualAfterStrip(job[w].actual_output, job[w].expected_output)
      /\ job[w].verdict = "Failed"
           <=> ~EqualAfterStrip(job[w].actual_output, job[w].expected_output)

\* a Passed verdict for an output that differs from the expected output in
\* its trailing whitespace
C15_Witness ==
  \E w \in Workers :
    /\ JudgedClean(w)
    /\ job[w].verdict = "Passed"
    /\ job[w].actual_output = <<"a", " ", "A", " ">>
         \/ job[w].actual_output = <<"a", " ">>
    /\ job[w].expected_output = TrimRight(job[w].actual_output)
    /\ job[w].expected_output # job[w].actual_output

\* C16: crash detection has priority over the comparison: when the run
\* returned an error, or the output contains the traceback header or the
\* token "Error:", the verdict is Runtime Error whatever the expected output
\* is, also when the trimmed output equals the trimmed expected output.
C16_CrashFirst ==
  \A w \in Workers :
    (/\ pc[w] = "judged"
     /\ \/ err[w] # << >>
        \/ Contains(job[w].actual_output, TracebackHeader)
        \/ Contains(job[w].actual_output, ErrorToken))
      => job[w].verdict = "Runtime Error"

\* an output with the token "Error:" that equals the expected output after
\* trimming has been judged
C16_Witness ==
  \E w \in Workers :
    /\ pc[w] = "judged"
    /\ err[w] = << >>
    /\ Contains(job[w].actual_output, ErrorToken)
    /\ job[w].actual_output # job[w].expected_output
    /\ EqualAfterStrip(job[w].actual_output, job[w].expected_output)
    /\ job[w].verdict = "Runtime Error"

\* the run of worker w has returned an output and no error
RunReturned(w) == pc[w] \in {"nexus", "persist"} /\ err[w] = << >>

\* o begins with p
IsPrefix(p, o) == Len(p) <= Len(o) /\ SubSeq(o, 1, Len(p)) = p

\* o without its first n elements
Drop(o, n) == SubSeq(o, n + 1, Len(o))

\* C17: the returned output is the captured stdout first, then the captured
\* stderr behind a separator only if stderr is non-empty, then the timeout
\* marker last only if the deadline fired; on a timeout stdout and stderr
\* are still part of the output.
C17_OutputOrder ==
  \A w \in Workers :
    RunReturned(w) =>
      LET b == Behaviour(job[w].code)
          o == job[w].actual_output
          afterOut == Drop(o, Len(b.stdout))
          afterErr == IF b.stderr = << >>
                        THEN afterOut
                        ELSE Drop(afterOut, 1 + Len(b.stderr))
      IN /\ IsPrefix(b.stdout, o)
         /\ b.stderr # << >> =>
              /\ IsPrefix(<<"\n">>, afterOut)
              /\ IsPrefix(b.stderr, Drop(afterOut, 1))
         /\ afterErr = timeoutWarning[w]

\* a run that printed on both streams and was killed at the deadline has
\* returned
C17_Witness ==
  \E w \in Workers :
    /\ RunReturned(w)
    /\ Behaviour(job[w].code).stdout # << >>
    /\ Behaviour(job[w].code).stderr # << >>
    /\ timeoutWarning[w] = timeoutWarningText
    /\ Len(job[w].actual_output) > Len(timeoutWarningText)

\* C18: the job queue is first-in first-out: of the IDs waiting in the
\* queue a worker pops the one pushed first.  LPush puts the newest ID at
\* the left end, so the one pushed first is the last element.
C18_QueueFIFO ==
  [][\A w \in Workers :
       (pc[w] = "pop" /\ pc'[w] = "get")
         => jobID'[w] = queue[Len(queue)]]_vars

\* worker w has loaded the record of the ID it popped and writes or has
\* written it back
Loaded(w) ==
  pc[w] \in {"mark", "run", "docker", "nexus", "blocked", "persist", "inc"}

\* the four fields a worker must not change
Fixed(j) == <<j.id, j.code, j.expected_output, j.created_at>>

\* C19: id, code, expected_output and created_at are immutable after
\* creation: the record a worker writes for the job it popped (the
\* processing write and the terminal write) carries the values a submission
\* wrote under that ID.
C19_FixedFields ==
  \A w \in Workers :
    Loaded(w) =>
      \E r \in Submitted :
        /\ hjob[r].id = jobID[w]
        /\ Fixed(job[w]) = Fixed(hjob[r])

\* C20: the diagnosis client is invoked only on a runtime failure: every
\* persisted record with a non-empty ai_diagnosis has verdict Runtime Error,
\* and a worker that calls callNexusAI holds a job with that verdict.
C20_DiagnosisOnlyOnRuntimeError ==
  /\ \A k \in DOMAIN store :
       store[k].ai_diagnosis # << >> => store[k].verdict = "Runtime Error"
  /\ \A w \in Workers :
       pc[w] \in {"nexus", "blocked"} => job[w].verdict = "Runtime Error"

\* the workers that write their terminal record in this step (line 165)
TerminalWriters == {w \in Workers : pc[w] = "persist" /\ pc'[w] = "inc"}

\* the workers whose diagnosis call returns in this step (line 153)
DiagnosisReturns == {w \in Workers : pc[w] = "nexus" /\ pc'[w] = "persist"}

\* the workers that leave line 166 in this step
Counters == {w \in Workers : pc[w] = "inc" /\ pc'[w] # "inc"}

C22_RecordBeforePush ==
  /\ [](\A i \in 1..Len(queue) :
          \E r \in Submitted : hjob[r].id = queue[i])
  /\ [][\A w \in Workers :
          (/\ pc[w] = "get"
           /\ pc'[w] = "mark"
           /\ JobKey(jobID[w]) \in DOMAIN store)
            => store[JobKey(jobID[w])].status = "pending"]_vars

====
